---- MODULE Spec2Model ----
(***************************************************************************)
(* Model of jpgtzg/autonomous-robot:                                       *)
(*   - lib/actions/action_scheduler.py  (ActionScheduler)                  *)
(*   - lib/math/pose2d.py               (Pose2d, Transform2d)              *)
(* Two specifications share the module: Spec drives the scheduler,         *)
(* MathSpec applies the pose algebra to inputs drawn from bounded sets.    *)
(***************************************************************************)
EXTENDS Integers, Sequences, FiniteSets, TLC

VARIABLES
    instance,           \* ActionScheduler._instance: "None" or "obj"
    action,             \* self.action
    scheduled_actions,  \* self.scheduled_actions
    actions_to_remove,  \* the list built by the most recent run()
    calls,              \* per action object: the lifecycle calls it received
    ticks,              \* number of run() calls made so far
    kind,               \* the class of each action object
    roller,             \* the roller System the ActivateRoller actions drive
    evals,              \* per WaitUntilAction: evaluations of its condition
    loop,               \* the for loop of a run() in progress
    pose,               \* the Pose2d receiver of the pose-algebra operations
    arg,                \* their argument: a Transform2d, a Pose2d or a Twist2d
    out,                \* value returned (or exception raised) by the last operation
    pc                  \* name of the last pose-algebra operation applied

schedVars == <<instance, action, scheduled_actions, actions_to_remove, calls, ticks,
               kind, roller, evals, loop>>
mathVars  == <<pose, arg, out, pc>>
vars      == <<instance, action, scheduled_actions, actions_to_remove, calls, ticks,
               kind, roller, evals, loop, pose, arg, out, pc>>

\* ------------------------------------------------------------------------
\* Bounds
\* ------------------------------------------------------------------------
MaxTicks == 3       \* run() is called at most this many times
MaxLog   == 5       \* schedule_action(a) is not called once a's log is this long
MaxCoord == 1       \* lattice coordinates range over -MaxCoord..MaxCoord

\* The action objects the application code has constructed.
Actions == {"a1", "a2"}

\* ------------------------------------------------------------------------
\* Sequence helpers
\* ------------------------------------------------------------------------
Range(s) == {s[i] : i \in 1..Len(s)}

Perms(S) == {s \in [1..Cardinality(S) -> S] : Range(s) = S}

Count(s, c) == Cardinality({i \in 1..Len(s) : s[i] = c})

Last(s) == s[Len(s)]

\* ------------------------------------------------------------------------
\* Actions: WaitUntilAction and ActivateRoller
\* ------------------------------------------------------------------------
Kinds == {"WaitUntilAction", "ActivateRoller"}

\* The state the methods of an action can touch, with the call logs:
\* st is [calls, actions_to_remove, roller, evals].
CurrentSt ==
    [calls |-> calls, actions_to_remove |-> actions_to_remove,
     roller |-> roller, evals |-> evals]

\* WaitUntilAction: initialize, execute and end are "pass"; is_finished
\* returns self.condition(), one evaluation of the condition per call.
WaitUntilAction_initialize(a, st) == st

\* An execute that evaluates the condition as well.
WaitUntilAction_execute_evaluates(a, st) == [st EXCEPT !.evals[a] = @ + 1]

WaitUntilAction_execute(a, st) == st

WaitUntilAction_end(a, st) == st

WaitUntilAction_is_finished(a, st) == [st EXCEPT !.evals[a] = @ + 1]

\* System.set(value): the command entry point of the roller.
System_set(sys, value) == [value |-> value, sets |-> sys.sets + 1]

\* ActivateRoller.execute: roller_system.set(ROLLER_SPEED).
ActivateRoller_execute(a, st) ==
    [st EXCEPT !.roller = System_set(@, "ROLLER_SPEED")]

\* RunAction, the base class of ActivateRoller: the methods it leaves to
\* the base class touch neither the roller nor a condition.
RunAction_initialize(a, st) == st

RunAction_is_finished(a, st) == st

RunAction_end(a, st) == st

\* action.initialize(), action.execute(), action.is_finished() returning
\* result, action.end(False): the call is logged and the method of the
\* action's class runs.
CallInitialize(a, st) ==
    LET logged == [st EXCEPT !.calls[a] = Append(@, "initialize")]
    IN IF kind[a] = "WaitUntilAction" THEN WaitUntilAction_initialize(a, logged)
       ELSE RunAction_initialize(a, logged)

CallExecute(a, st) ==
    LET logged == [st EXCEPT !.calls[a] = Append(@, "execute")]
    IN IF kind[a] = "WaitUntilAction" THEN WaitUntilAction_execute(a, logged)
       ELSE ActivateRoller_execute(a, logged)

CallIsFinished(a, st, result) ==
    LET logged == [st EXCEPT !.calls[a] =
                      Append(@, IF result THEN "is_finished_T" ELSE "is_finished_F")]
    IN IF kind[a] = "WaitUntilAction" THEN WaitUntilAction_is_finished(a, logged)
       ELSE RunAction_is_finished(a, logged)

CallEnd(a, st) ==
    LET logged == [st EXCEPT !.calls[a] = Append(@, "end_F")]
    IN IF kind[a] = "WaitUntilAction" THEN WaitUntilAction_end(a, logged)
       ELSE RunAction_end(a, logged)

\* ------------------------------------------------------------------------
\* ActionScheduler
\* ------------------------------------------------------------------------

\* No run() is in progress.
Idle == [pc |-> "idle", order |-> <<>>, i |-> 0, used |-> 0, start |-> {},
         error |-> "None"]

\* __new__: the instance is created only when _instance is None.
ActionScheduler_new(inst) == IF inst = "None" THEN "obj" ELSE inst

\* __init__: Python runs it on the object __new__ returned, on every
\* ActionScheduler() call; it rebinds both attributes.
ActionScheduler_init(self) ==
    [action |-> "None", scheduled_actions |-> {}]

\* ActionScheduler(): __new__ followed by __init__.
ActionScheduler_call ==
    /\ loop.pc = "idle"
    /\ instance' = ActionScheduler_new(instance)
    /\ LET self == ActionScheduler_init([action |-> action,
                                        scheduled_actions |-> scheduled_actions])
       IN /\ action' = self.action
          /\ scheduled_actions' = self.scheduled_actions
    /\ UNCHANGED <<actions_to_remove, calls, ticks, kind, roller, evals, loop>>
    /\ UNCHANGED mathVars

\* schedule_action that adds the action without calling initialize().
schedule_action_no_initialize(a) ==
    /\ loop.pc = "idle"
    /\ instance # "None"
    /\ Len(calls[a]) < MaxLog
    /\ scheduled_actions' = scheduled_actions \cup {a}
    /\ UNCHANGED <<instance, action, actions_to_remove, calls, ticks,
                   kind, roller, evals, loop>>
    /\ UNCHANGED mathVars

\* schedule_action that first cancels the other active actions of the same
\* class: they are ended and taken out of the set.
schedule_action_exclusive(a) ==
    /\ loop.pc = "idle"
    /\ instance # "None"
    /\ Len(calls[a]) < MaxLog
    /\ LET rivals == {b \in scheduled_actions \ {a} : kind[b] = kind[a]}
       IN /\ scheduled_actions' = (scheduled_actions \ rivals) \cup {a}
          /\ calls' = [b \in Actions |->
                          IF b = a THEN Append(calls[b], "initialize")
                          ELSE IF b \in rivals THEN Append(calls[b], "end_T")
                          ELSE calls[b]]
    /\ UNCHANGED <<instance, action, actions_to_remove, ticks,
                   kind, roller, evals, loop>>
    /\ UNCHANGED mathVars

\* schedule_action(action): add to the set, then call initialize().
schedule_action(a) ==
    /\ loop.pc = "idle"
    /\ instance # "None"
    /\ Len(calls[a]) < MaxLog
    /\ scheduled_actions' = scheduled_actions \cup {a}
    /\ LET st == CallInitialize(a, CurrentSt)
       IN /\ calls' = st.calls
          /\ roller' = st.roller
          /\ evals' = st.evals
    /\ UNCHANGED <<instance, action, actions_to_remove, ticks, kind, loop>>
    /\ UNCHANGED mathVars

\* A first loop that asks is_finished() before it calls execute().
RECURSIVE RunLoop_check_first(_, _, _, _)
RunLoop_check_first(order, i, fin, st) ==
    IF i > Len(order) THEN st
    ELSE LET a  == order[i]
             s1 == CallIsFinished(a, st, fin[a])
             s2 == CallExecute(a, s1)
         IN IF fin[a]
            THEN RunLoop_check_first(order, i + 1, fin,
                   [CallEnd(a, s2) EXCEPT !.actions_to_remove = Append(@, a)])
            ELSE RunLoop_check_first(order, i + 1, fin, s2)

\* A first loop that stops at the first finished action ("break").
RECURSIVE RunLoop_break(_, _, _, _)
RunLoop_break(order, i, fin, st) ==
    IF i > Len(order) THEN st
    ELSE LET a  == order[i]
             s1 == CallExecute(a, st)
             s2 == CallIsFinished(a, s1, fin[a])
         IN IF fin[a]
            THEN [CallEnd(a, s2) EXCEPT !.actions_to_remove = Append(@, a)]
            ELSE RunLoop_break(order, i + 1, fin, s2)

\* The first loop of run(): for each action in iteration order, execute(),
\* is_finished(), and when finished end(False) and append to the removal list.
\* fin[a] is what a.is_finished() returns.
RECURSIVE RunLoop(_, _, _, _)
RunLoop(order, i, fin, st) ==
    IF i > Len(order) THEN st
    ELSE LET a  == order[i]
             s1 == CallExecute(a, st)
             s2 == CallIsFinished(a, s1, fin[a])
         IN IF fin[a]
            THEN RunLoop(order, i + 1, fin,
                   [CallEnd(a, s2) EXCEPT !.actions_to_remove = Append(@, a)])
            ELSE RunLoop(order, i + 1, fin, s2)

\* A second loop that leaves the set as it is.
RemoveAll_nothing(set, list, i) == set

\* The second loop of run(): remove every listed action from the set.
RECURSIVE RemoveAll(_, _, _)
RemoveAll(set, list, i) ==
    IF i > Len(list) THEN set
    ELSE RemoveAll(set \ {list[i]}, list, i + 1)

\* run(): one scheduler tick. The iteration order of a Python set is
\* unspecified, so it is chosen nondeterministically; the value returned by
\* each is_finished() is supplied by the action (WaitUntilAction: condition()).
run ==
    /\ loop.pc = "idle"
    /\ instance # "None"
    /\ ticks < MaxTicks
    /\ \E order \in Perms(scheduled_actions) :
       \E fin \in [scheduled_actions -> BOOLEAN] :
          LET st == RunLoop(order, 1, fin,
                            [CurrentSt EXCEPT !.actions_to_remove = <<>>])
          IN /\ calls' = st.calls
             /\ actions_to_remove' = st.actions_to_remove
             /\ roller' = st.roller
             /\ evals' = st.evals
             /\ scheduled_actions' =
                    RemoveAll(scheduled_actions, st.actions_to_remove, 1)
    /\ ticks' = ticks + 1
    /\ UNCHANGED <<instance, action, kind, loop>>
    /\ UNCHANGED mathVars
\* ------------------------------------------------------------------------
\* run() step by step: the iterator over the set, one action per step
\* ------------------------------------------------------------------------

\* CurrentSt together with the active set, which a nested schedule_action changes.
CurrentStWithSet ==
    [calls |-> calls, actions_to_remove |-> actions_to_remove,
     roller |-> roller, evals |-> evals, scheduled_actions |-> scheduled_actions]

\* schedule_action(b) called from inside an action's execute(): the same
\* two statements, add to the set and initialize().
NestedSchedule(b, st) ==
    IF b = "none" THEN st
    ELSE CallInitialize(b, [st EXCEPT !.scheduled_actions = @ \cup {b}])

\* The body of the first loop of run() for one action a: execute() (which
\* may schedule the action spawn), is_finished() returning result, and when
\* finished end(False) and append to the removal list.
RunBody(a, result, spawn, st) ==
    LET s1 == NestedSchedule(spawn, CallExecute(a, st))
        s2 == CallIsFinished(a, s1, result)
    IN IF result
       THEN [CallEnd(a, s2) EXCEPT !.actions_to_remove = Append(@, a)]
       ELSE s2

\* run() is entered: actions_to_remove = [] and the iterator over the set is
\* created; it remembers the size of the set.
RunBegin ==
    /\ loop.pc = "idle"
    /\ instance # "None"
    /\ ticks < MaxTicks
    /\ \E order \in Perms(scheduled_actions) :
           loop' = [pc |-> "loop", order |-> order, i |-> 1,
                    used |-> Cardinality(scheduled_actions),
                    start |-> scheduled_actions, error |-> "None"]
    /\ actions_to_remove' = <<>>
    /\ ticks' = ticks + 1
    /\ UNCHANGED <<instance, action, scheduled_actions, calls, kind, roller, evals>>
    /\ UNCHANGED mathVars

\* One step of "for action in self.scheduled_actions". The iterator raises
\* RuntimeError when the set has changed size since it was created, and
\* run() is left with the removal loop not run; otherwise the loop ends
\* when the set is exhausted, or the body runs for the next action.
\* spawnable is what an execute() may pass to a nested schedule_action.
RunFor(spawnable) ==
    /\ loop.pc = "loop"
    /\ IF Cardinality(scheduled_actions) # loop.used
       THEN /\ loop' = [Idle EXCEPT !.error = "RuntimeError"]
            /\ UNCHANGED <<scheduled_actions, actions_to_remove, calls, roller, evals>>
       ELSE IF loop.i > Len(loop.order)
       THEN /\ loop' = [loop EXCEPT !.pc = "remove"]
            /\ UNCHANGED <<scheduled_actions, actions_to_remove, calls, roller, evals>>
       ELSE \E result \in BOOLEAN :
            \E spawn \in {b \in spawnable :
                             b = "none" \/ Len(calls[b]) < MaxLog} :
               LET st == RunBody(loop.order[loop.i], result, spawn, CurrentStWithSet)
               IN /\ calls' = st.calls
                  /\ actions_to_remove' = st.actions_to_remove
                  /\ roller' = st.roller
                  /\ evals' = st.evals
                  /\ scheduled_actions' = st.scheduled_actions
                  /\ loop' = [loop EXCEPT !.i = @ + 1]
    /\ UNCHANGED <<instance, action, ticks, kind>>
    /\ UNCHANGED mathVars

\* The second loop of run(), after which run() returns.
RunRemove ==
    /\ loop.pc = "remove"
    /\ scheduled_actions' = RemoveAll(scheduled_actions, actions_to_remove, 1)
    /\ loop' = Idle
    /\ UNCHANGED <<instance, action, actions_to_remove, calls, ticks,
                   kind, roller, evals>>
    /\ UNCHANGED mathVars

\* ------------------------------------------------------------------------
\* Values of the pose algebra
\* ------------------------------------------------------------------------

\* Python's None, and a raised AttributeError as the outcome of a call.
None == [py_none |-> TRUE]

AttributeError == [raised |-> "AttributeError"]

Raised(v) == "raised" \in DOMAIN v

\* obj.name resolves when name is an instance attribute or a method of the class.
HasAttr(obj, methods, name) == name \in (DOMAIN obj \cup methods)

\* Real numbers of the form n + ip/pi with integer n and ip: closed under
\* addition, negation and multiplication by an integer, which is all the
\* operations below need on lattice coordinates and quarter-turn angles.
Num(n, ip) == [n |-> n, ip |-> ip]

NumAdd(u, v) == Num(u.n + v.n, u.ip + v.ip)

NumSub(u, v) == Num(u.n - v.n, u.ip - v.ip)

NumNeg(u) == Num(0 - u.n, 0 - u.ip)

NumScale(k, u) == Num(k * u.n, k * u.ip)

\* Angles are counted in quarter turns: k stands for k*pi/2 radians.
QuarterTurns == -2..2

\* math.sin and math.cos of k quarter turns.
Sin(k) == CASE k % 4 = 0 -> 0 [] k % 4 = 1 -> 1 [] k % 4 = 2 -> 0 [] k % 4 = 3 -> -1

Cos(k) == CASE k % 4 = 0 -> 1 [] k % 4 = 1 -> 0 [] k % 4 = 2 -> -1 [] k % 4 = 3 -> 0

\* math.atan2(y, x) of a unit lattice vector, in quarter turns within (-pi, pi].
Atan2(y, x) ==
    CASE y = 0 /\ x = 1  -> 0
      [] y = 1 /\ x = 0  -> 1
      [] y = 0 /\ x = -1 -> 2
      [] y = -1 /\ x = 0 -> -1

\* Rotation2d: the heading kept as (cos, sin).
Rotation2d(k) == [cos |-> Cos(k), sin |-> Sin(k)]

Rotation2d_plus(r, o) ==
    [cos |-> r.cos * o.cos - r.sin * o.sin,
     sin |-> r.sin * o.cos + r.cos * o.sin]

Rotation2d_unary_minus(r) == [cos |-> r.cos, sin |-> 0 - r.sin]

Rotation2d_minus(r, o) == Rotation2d_plus(r, Rotation2d_unary_minus(o))

\* Translation2d: a 2D vector.
Translation2d(x, y) == [x |-> x, y |-> y]

Translation2d_plus(t, o) == Translation2d(NumAdd(t.x, o.x), NumAdd(t.y, o.y))

Translation2d_minus(t, o) == Translation2d(NumSub(t.x, o.x), NumSub(t.y, o.y))

Translation2d_unary_minus(t) == Translation2d(NumNeg(t.x), NumNeg(t.y))

Translation2d_rotate_by(t, r) ==
    Translation2d(NumSub(NumScale(r.cos, t.x), NumScale(r.sin, t.y)),
                  NumAdd(NumScale(r.sin, t.x), NumScale(r.cos, t.y)))

\* Twist2d: a local-frame delta; dx, dy lattice values, dtheta in quarter turns.
Twist2d(dx, dy, dtheta) == [dx |-> dx, dy |-> dy, dtheta |-> dtheta]

\* ------------------------------------------------------------------------
\* Pose2d and Transform2d
\* ------------------------------------------------------------------------

\* Pose2d.__init__(x, y, rotation)
Pose2d(x, y, rotation) ==
    [translation |-> Translation2d(x, y),
     rotation    |-> IF rotation = None THEN Rotation2d(0) ELSE rotation]

\* The methods class Pose2d defines.
Pose2dMethods ==
    {"plus", "minus", "relative_to", "get_translation", "get_x", "get_y",
     "get_rotation", "rotate_by", "exp"}

\* The methods class Transform2d defines.
Transform2dMethods ==
    {"from_poses", "from_coordinates", "times", "div", "plus", "get_translation",
     "get_x", "get_y", "get_rotation", "inverse"}

\* Transform2d.__init__(translation, rotation)
Transform2d(translation, rotation) ==
    IF translation = None
    THEN [m_translation |-> Translation2d(Num(0, 0), Num(0, 0)),
          m_rotation    |-> Rotation2d(0)]
    ELSE [m_translation |-> translation, m_rotation |-> rotation]

\* Pose2d.plus(other: Transform2d)
Pose2d_plus(self, o) ==
    LET new_translation ==
            Translation2d_plus(self.translation,
                               Translation2d_rotate_by(o.m_translation, self.rotation))
        new_rotation == Rotation2d_plus(o.m_rotation, self.rotation)
    IN Pose2d(new_translation.x, new_translation.y, new_rotation)

\* Pose2d.relative_to(other: Pose2d): reads transform.translation and
\* transform.rotation of a Transform2d.
Pose2d_relative_to(self, o) ==
    LET t == Transform2d(o.translation, o.rotation)
    IN IF /\ HasAttr(t, Transform2dMethods, "translation")
          /\ HasAttr(t, Transform2dMethods, "rotation")
       THEN Pose2d(t.translation.x, t.translation.y, t.rotation)
       ELSE AttributeError

\* Pose2d.minus(other: Pose2d)
Pose2d_minus(self, o) ==
    LET relative_pose == Pose2d_relative_to(self, o)
    IN IF Raised(relative_pose) THEN relative_pose
       ELSE Transform2d(relative_pose.translation, relative_pose.rotation)

\* Rotation2d.rotate_by(other): composition of the two rotations.
Rotation2d_rotate_by(r, o) == Rotation2d_plus(r, o)

\* Pose2d.rotate_by(rotation): the rotated translation is passed as x, the
\* rotated rotation as y, and the rotation parameter keeps its default None.
Pose2d_rotate_by(self, rotation) ==
    Pose2d(Translation2d_rotate_by(self.translation, rotation),
           Rotation2d_rotate_by(self.rotation, rotation),
           None)

\* from_poses without the rotation into the initial pose's frame.
Transform2d_from_poses_no_derotation(initial, last) ==
    LET translation == Translation2d_minus(last.translation, initial.translation)
        rotation    == Rotation2d_minus(last.rotation, initial.rotation)
    IN Transform2d(translation, rotation)

\* Transform2d.from_poses(initial, last)
Transform2d_from_poses(initial, last) ==
    LET translation == Translation2d_minus(last.translation, initial.translation)
        rotation    == Rotation2d_minus(last.rotation, initial.rotation)
        rotated_translation ==
            Translation2d_rotate_by(translation,
                                    Rotation2d_unary_minus(initial.rotation))
    IN Transform2d(rotated_translation, rotation)

\* Transform2d.plus(other): calls initial_pose.transform_by(...) on a Pose2d.
Transform2d_plus(self, o) ==
    LET initial_pose == Pose2d(Num(0, 0), Num(0, 0), None)
    IN IF HasAttr(initial_pose, Pose2dMethods, "transform_by")
       THEN Transform2d_from_poses(initial_pose,
                Pose2d_plus(Pose2d_plus(initial_pose, self), o))
       ELSE AttributeError

\* Transform2d.inverse()
Transform2d_inverse(self) ==
    Transform2d(
        Translation2d_rotate_by(Translation2d_unary_minus(self.m_translation),
                                Rotation2d_unary_minus(self.m_rotation)),
        Rotation2d_unary_minus(self.m_rotation))

\* The coefficients s and c of exp for dtheta = k quarter turns. Below the
\* 1E-9 threshold (here: k = 0) the Taylor values, otherwise sin/dtheta and
\* (1 - cos)/dtheta, which for dtheta = k*pi/2 are (2*sin/k)/pi and
\* (2*(1 - cos)/k)/pi.
Exp_s(k) ==
    IF k = 0 THEN Num(1 - (k * k) \div 6, 0)
    ELSE Num(0, (2 * Sin(k)) \div k)

\* The coefficient c of a first-order (Euler) step.
Exp_c_euler(k) == Num(0, 0)

Exp_c(k) ==
    IF k = 0 THEN Num(k \div 2, 0)
    ELSE Num(0, (2 * (1 - Cos(k))) \div k)

\* exp with the arguments of atan2 exchanged.
Pose2d_exp_atan2_swapped(self, tw) ==
    LET sin_theta == Sin(tw.dtheta)
        cos_theta == Cos(tw.dtheta)
        s == Exp_s(tw.dtheta)
        c == Exp_c(tw.dtheta)
        t == Transform2d(
                 Translation2d(NumSub(NumScale(tw.dx, s), NumScale(tw.dy, c)),
                               NumAdd(NumScale(tw.dx, c), NumScale(tw.dy, s))),
                 Rotation2d(Atan2(cos_theta, sin_theta)))
    IN Pose2d_plus(self, t)

\* Pose2d.exp(twist)
Pose2d_exp(self, tw) ==
    LET sin_theta == Sin(tw.dtheta)
        cos_theta == Cos(tw.dtheta)
        s == Exp_s(tw.dtheta)
        c == Exp_c(tw.dtheta)
        t == Transform2d(
                 Translation2d(NumSub(NumScale(tw.dx, s), NumScale(tw.dy, c)),
                               NumAdd(NumScale(tw.dx, c), NumScale(tw.dy, s))),
                 Rotation2d(Atan2(sin_theta, cos_theta)))
    IN Pose2d_plus(self, t)

\* ------------------------------------------------------------------------
\* Inputs of the pose algebra
\* ------------------------------------------------------------------------
Coords == {Num(n, 0) : n \in -MaxCoord..MaxCoord}

Rotations == {Rotation2d(k) : k \in QuarterTurns}

Poses == {Pose2d(x, y, r) : x \in Coords, y \in Coords, r \in Rotations}

Transforms == {Transform2d(Translation2d(x, y), r) :
                   x \in Coords, y \in Coords, r \in Rotations}

Twists == {Twist2d(dx, dy, k) :
               dx \in -MaxCoord..MaxCoord, dy \in -MaxCoord..MaxCoord,
               k \in QuarterTurns}

IsPose(v) == DOMAIN v = {"translation", "rotation"}

IsTransform(v) == DOMAIN v = {"m_translation", "m_rotation"}

IsTwist(v) == DOMAIN v = {"dx", "dy", "dtheta"}

IsRotation(v) == DOMAIN v = {"cos", "sin"}

\* ------------------------------------------------------------------------
\* Applications of the pose algebra
\* ------------------------------------------------------------------------

\* out = pose.plus(arg)
DoPosePlus ==
    /\ pc = "start" /\ IsTransform(arg)
    /\ out' = Pose2d_plus(pose, arg)
    /\ pc' = "plus"
    /\ UNCHANGED <<pose, arg>> /\ UNCHANGED schedVars

\* out = Transform2d.from_poses(pose, pose.plus(arg))
DoFromPoses ==
    /\ pc = "plus"
    /\ out' = Transform2d_from_poses(pose, out)
    /\ pc' = "from_poses"
    /\ UNCHANGED <<pose, arg>> /\ UNCHANGED schedVars

\* out = arg.inverse()
DoInverse ==
    /\ pc = "start" /\ IsTransform(arg)
    /\ out' = Transform2d_inverse(arg)
    /\ pc' = "inverse"
    /\ UNCHANGED <<pose, arg>> /\ UNCHANGED schedVars

\* out = arg.plus(arg.inverse())
DoPlusInverse ==
    /\ pc = "inverse"
    /\ out' = Transform2d_plus(arg, out)
    /\ pc' = "plus_inverse"
    /\ UNCHANGED <<pose, arg>> /\ UNCHANGED schedVars

\* out = pose.minus(arg)
DoMinus ==
    /\ pc = "start" /\ IsPose(arg)
    /\ out' = Pose2d_minus(pose, arg)
    /\ pc' = "minus"
    /\ UNCHANGED <<pose, arg>> /\ UNCHANGED schedVars

\* out = arg.plus(pose.minus(arg)); an exception raised by minus propagates.
DoPlusMinus ==
    /\ pc = "minus"
    /\ out' = IF Raised(out) THEN out ELSE Pose2d_plus(arg, out)
    /\ pc' = "plus_minus"
    /\ UNCHANGED <<pose, arg>> /\ UNCHANGED schedVars

\* out = pose.relative_to(arg)
DoRelativeTo ==
    /\ pc = "start" /\ IsPose(arg)
    /\ out' = Pose2d_relative_to(pose, arg)
    /\ pc' = "relative_to"
    /\ UNCHANGED <<pose, arg>> /\ UNCHANGED schedVars

\* out = pose.rotate_by(arg)
DoRotateBy ==
    /\ pc = "start" /\ IsRotation(arg)
    /\ out' = Pose2d_rotate_by(pose, arg)
    /\ pc' = "rotate_by"
    /\ UNCHANGED <<pose, arg>> /\ UNCHANGED schedVars

\* out = pose.exp(arg)
DoExp ==
    /\ pc = "start" /\ IsTwist(arg)
    /\ out' = Pose2d_exp(pose, arg)
    /\ pc' = "exp"
    /\ UNCHANGED <<pose, arg>> /\ UNCHANGED schedVars

\* ------------------------------------------------------------------------
\* Specifications
\* ------------------------------------------------------------------------
SchedInit ==
    /\ instance = "None"
    /\ action = "None"
    /\ scheduled_actions = {}
    /\ actions_to_remove = <<>>
    /\ calls = [a \in Actions |-> <<>>]
    /\ ticks = 0
    /\ roller = [value |-> "None", sets |-> 0]
    /\ evals = [a \in Actions |-> 0]
    /\ loop = Idle

Init ==
    /\ SchedInit
    /\ kind \in [Actions -> Kinds]
    /\ pose = None /\ arg = None /\ out = None /\ pc = "idle"

Next ==
    \/ ActionScheduler_call
    \/ \E a \in Actions : schedule_action(a)
    \/ run

Spec == Init /\ [][Next]_vars

\* run() step by step, with actions that do not call the scheduler; the
\* loops of run() are over a finite set and no action blocks, so a run()
\* that was entered keeps stepping.
StepNext ==
    \/ ActionScheduler_call
    \/ \E a \in Actions : schedule_action(a)
    \/ RunBegin
    \/ RunFor({"none"})
    \/ RunRemove

FairStepSpec ==
    Init /\ [][StepNext]_vars /\ WF_vars(RunFor({"none"})) /\ WF_vars(RunRemove)

\* run() step by step, with actions whose execute() may call schedule_action.
ReentrantNext ==
    \/ ActionScheduler_call
    \/ \E a \in Actions : schedule_action(a)
    \/ RunBegin
    \/ RunFor(Actions \cup {"none"})
    \/ RunRemove

ReentrantSpec == Init /\ [][ReentrantNext]_vars

MathInit ==
    /\ SchedInit
    /\ kind = [a \in Actions |-> "WaitUntilAction"]
    /\ pose \in Poses
    /\ arg \in Transforms \cup Poses \cup Twists \cup Rotations
    /\ out = None
    /\ pc = "start"

MathNext ==
    \/ DoPosePlus
    \/ DoFromPoses
    \/ DoInverse
    \/ DoPlusInverse
    \/ DoMinus
    \/ DoPlusMinus
    \/ DoRelativeTo
    \/ DoRotateBy
    \/ DoExp

MathSpec == MathInit /\ [][MathNext]_vars

\* ------------------------------------------------------------------------
\* Observations on the call logs
\* ------------------------------------------------------------------------
IsFinishedCalls == {"is_finished_T", "is_finished_F"}

\* a has been initialized and end has not been called on it since.
Live(a) ==
    \E k \in 1..Len(calls[a]) :
        /\ calls[a][k] = "initialize"
        /\ \A m \in (k + 1)..Len(calls[a]) : calls[a][m] # "end_F"

\* ------------------------------------------------------------------------
\* Properties
\* ------------------------------------------------------------------------

\* C1: an action that is already in the active set is never initialized
\* again: scheduling the same action object twice leaves the number of
\* initialize() calls it has received at one.
C1_InitializeOnce ==
    [][\A a \in Actions :
          a \in scheduled_actions =>
              Count(calls'[a], "initialize") = Count(calls[a], "initialize")]_vars

\* C2 (as stated): once is_finished() has returned true for an action, end(False)
\* follows at once, the action is out of the active set after that tick, and
\* end has been called on it exactly once over the whole run.
C2_EndNeverAgain ==
    \A a \in Actions :
        /\ \A i \in 1..Len(calls[a]) :
              calls[a][i] = "is_finished_T" =>
                  i < Len(calls[a]) /\ calls[a][i + 1] = "end_F"
        /\ (calls[a] # <<>> /\ Last(calls[a]) = "end_F") => a \notin scheduled_actions
        /\ Count(calls[a], "end_F") <= 1

\* C2 (amended): every is_finished() that returns true is followed at once by
\* end(False), end is called at no other point, the action is out of the
\* active set after that tick, and two end calls on one action are always
\* separated by a new initialize(), that is by a new schedule_action.
C2_EndOncePerScheduling ==
    \A a \in Actions :
        /\ \A i \in 1..Len(calls[a]) :
              calls[a][i] = "is_finished_T" =>
                  i < Len(calls[a]) /\ calls[a][i + 1] = "end_F"
        /\ \A i \in 1..Len(calls[a]) :
              calls[a][i] = "end_F" => i > 1 /\ calls[a][i - 1] = "is_finished_T"
        /\ (calls[a] # <<>> /\ Last(calls[a]) = "end_F") => a \notin scheduled_actions
        /\ \A i, j \in 1..Len(calls[a]) :
              (i < j /\ calls[a][i] = "end_F" /\ calls[a][j] = "end_F") =>
                  \E k \in (i + 1)..(j - 1) : calls[a][k] = "initialize"

\* C2 witness: an action was retired in its first tick, a later tick has run
\* without ending it again, and it is out of the active set.
C2_Witness ==
    \E a \in Actions :
        /\ calls[a] = <<"initialize", "execute", "is_finished_T", "end_F">>
        /\ a \notin scheduled_actions
        /\ ticks >= 2
        /\ a \notin Range(actions_to_remove)

\* C3: an action that has been scheduled and whose is_finished() has only
\* ever returned false is in the active set and has never been ended, and
\* every run() tick calls its execute() once more.
C3_NeverFinishedRunsForever ==
    /\ [](\A a \in Actions :
            (Count(calls[a], "initialize") > 0 /\ Count(calls[a], "is_finished_T") = 0)
                => (a \in scheduled_actions /\ Count(calls[a], "end_F") = 0))
    /\ [][ticks' = ticks + 1 =>
            \A a \in Actions :
                (Count(calls[a], "initialize") > 0
                    /\ Count(calls'[a], "is_finished_T") = 0)
                    => Count(calls'[a], "execute") = Count(calls[a], "execute") + 1]_vars

\* C4 (as stated): initialize() precedes the first execute(), and no execute()
\* or is_finished() is called on an action after end() was called on it.
C4_NoCallAfterEnd ==
    \A a \in Actions :
        /\ \A j \in 1..Len(calls[a]) :
              calls[a][j] = "execute" =>
                  \E k \in 1..(j - 1) : calls[a][k] = "initialize"
        /\ \A i, j \in 1..Len(calls[a]) :
              (i < j /\ calls[a][i] = "end_F") =>
                  calls[a][j] \notin ({"execute"} \cup IsFinishedCalls)

\* C4 (amended): every execute() and is_finished() call on an action comes
\* after an initialize() with no end() in between: after end() the action
\* receives no such call until schedule_action has initialized it again.
C4_Lifecycle ==
    \A a \in Actions :
        \A j \in 1..Len(calls[a]) :
            calls[a][j] \in ({"execute"} \cup IsFinishedCalls) =>
                \E k \in 1..(j - 1) :
                    /\ calls[a][k] = "initialize"
                    /\ \A m \in (k + 1)..(j - 1) : calls[a][m] # "end_F"

\* C4 witness: an action ran through a whole lifecycle, was scheduled again
\* and has been executed again.
C4_Witness ==
    \E a \in Actions :
        calls[a] = <<"initialize", "execute", "is_finished_T", "end_F",
                     "initialize", "execute">> \o <<"is_finished_F">>

\* C5: the scheduler object, once created, stays the same object, and a step
\* that is neither a schedule_action nor a run() (obtaining ActionScheduler()
\* again) leaves the active set as it was.
C5_SingletonKeepsSet ==
    [][(calls' = calls /\ ticks' = ticks) =>
          /\ (instance # "None" => instance' = instance)
          /\ \A a \in Actions : a \in scheduled_actions => a \in scheduled_actions']_vars

\* C6: the members of the active set are exactly the actions that have been
\* initialized and not ended since.
C6_MembershipIffLive ==
    \A a \in Actions : a \in scheduled_actions <=> Live(a)

\* C7: Transform2d.from_poses(p, p.plus(t)) is t.
C7_RoundTrip ==
    pc = "from_poses" => out = arg

\* C7 witness: the round trip from a rotated pose with a transform that both
\* translates and rotates.
C7_Witness ==
    /\ pc = "from_poses"
    /\ pose.rotation = Rotation2d(1)
    /\ arg = Transform2d(Translation2d(Num(1, 0), Num(-1, 0)), Rotation2d(2))
    /\ out = arg

\* C8: t.plus(t.inverse()) is the identity transform.
C8_PlusInverseIsIdentity ==
    pc = "plus_inverse" => out = Transform2d(None, None)

\* C9: b.plus(a.minus(b)) is a.
C9_MinusMapsOtherToThis ==
    pc = "plus_minus" => out = pose

\* C10: p.exp of the zero twist is p.
C10_ZeroTwistIsNoOp ==
    (pc = "exp" /\ arg = Twist2d(0, 0, 0)) => out = pose

\* C10 witness: Pose2d().exp(Twist2d(0, 0, 0)) has returned Pose2d().
C10_Witness ==
    /\ pc = "exp"
    /\ arg = Twist2d(0, 0, 0)
    /\ pose = Pose2d(Num(0, 0), Num(0, 0), None)
    /\ out = Pose2d(Num(0, 0), Num(0, 0), None)

\* C11: exp follows the exact arc: from Pose2d() the twist (1, 0, pi/2)
\* ends at translation (2/pi, 2/pi) with rotation pi/2, and more generally a
\* quarter-turn twist (dx, dy, pi/2) ends at ((2dx - 2dy)/pi, (2dx + 2dy)/pi);
\* a twist with dtheta = 0 (the branch below the 1E-9 threshold) ends at (dx, dy).
C11_ExactArc ==
    (pc = "exp" /\ pose = Pose2d(Num(0, 0), Num(0, 0), None)) =>
        /\ arg = Twist2d(1, 0, 1) =>
              out = Pose2d(Num(0, 2), Num(0, 2), Rotation2d(1))
        /\ arg.dtheta = 1 =>
              out = Pose2d(Num(0, 2 * arg.dx - 2 * arg.dy),
                           Num(0, 2 * arg.dx + 2 * arg.dy), Rotation2d(1))
        /\ arg.dtheta = 0 =>
              out = Pose2d(Num(arg.dx, 0), Num(arg.dy, 0), Rotation2d(0))

\* C11 witness: Pose2d().exp(Twist2d(1, 0, pi/2)) has returned the
\* quarter-circle endpoint.
C11_Witness ==
    /\ pc = "exp"
    /\ pose = Pose2d(Num(0, 0), Num(0, 0), None)
    /\ arg = Twist2d(1, 0, 1)
    /\ out.translation = Translation2d(Num(0, 2), Num(0, 2))
    /\ out.rotation = Rotation2d(1)

\* C12: each of plus, minus, relative_to, rotate_by and exp returns a value
\* (a new object) and leaves its receiver and its argument as they were.
C12_ReturnsNewLeavesReceiver ==
    [][pc' \in {"plus", "minus", "relative_to", "rotate_by", "exp"} =>
          /\ pose' = pose
          /\ arg' = arg
          /\ ~Raised(out')]_vars

\* C13: p.rotate_by(r) is the pose whose translation is p.translation rotated
\* by r about the origin and whose rotation is p.rotation composed with r.
C13_RotateBy ==
    pc = "rotate_by" =>
        LET rotated == Translation2d_rotate_by(pose.translation, arg)
        IN out = Pose2d(rotated.x, rotated.y, Rotation2d_plus(pose.rotation, arg))

\* C15: in a run() tick every action that is active at its start receives
\* execute() and then is_finished(), once each, followed by end(False) exactly
\* when is_finished() returned true; an action that is not active receives
\* no call.
C15_TickCalls ==
    [][ticks' = ticks + 1 =>
          \A a \in Actions :
              IF a \in scheduled_actions
              THEN \/ calls'[a] = calls[a] \o <<"execute", "is_finished_F">>
                   \/ calls'[a] = calls[a] \o <<"execute", "is_finished_T", "end_F">>
              ELSE calls'[a] = calls[a]]_vars

\* C15 witness: one tick has run over two active actions, one of which
\* finished in it.
C15_Witness ==
    /\ ticks = 1
    /\ calls["a1"] = <<"initialize", "execute", "is_finished_T", "end_F">>
    /\ calls["a2"] = <<"initialize", "execute", "is_finished_F">>

\* C17 (as stated): a WaitUntilAction evaluates its condition once per
\* is_finished() call and nowhere else, once per tick while it is active, is
\* retired in the tick the condition returns true, and the condition is not
\* evaluated after an evaluation that returned true.
C17_ConditionNeverAgain ==
    /\ [](\A a \in Actions : kind[a] = "WaitUntilAction" =>
            /\ evals[a] = Count(calls[a], "is_finished_T")
                            + Count(calls[a], "is_finished_F")
            /\ \A i \in 1..Len(calls[a]) :
                  calls[a][i] = "is_finished_T" =>
                      i < Len(calls[a]) /\ calls[a][i + 1] = "end_F"
            /\ (calls[a] # <<>> /\ Last(calls[a]) = "end_F")
                  => a \notin scheduled_actions
            /\ \A i, j \in 1..Len(calls[a]) :
                  (i < j /\ calls[a][i] = "is_finished_T") =>
                      calls[a][j] \notin IsFinishedCalls)
    /\ [][ticks' = ticks + 1 =>
            \A a \in Actions : kind[a] = "WaitUntilAction" =>
                evals'[a] = evals[a] + (IF a \in scheduled_actions THEN 1 ELSE 0)]_vars

\* C17 (amended): as above, except that after an evaluation that returned
\* true the condition is evaluated again only after a new initialize(), that
\* is after the action was scheduled again; and the methods initialize,
\* execute and end of WaitUntilAction change nothing: scheduling evaluates no
\* condition, and with only WaitUntilActions the roller is never commanded.
C17_WaitUntil ==
    /\ [](\A a \in Actions : kind[a] = "WaitUntilAction" =>
            /\ evals[a] = Count(calls[a], "is_finished_T")
                            + Count(calls[a], "is_finished_F")
            /\ \A i \in 1..Len(calls[a]) :
                  calls[a][i] = "is_finished_T" =>
                      i < Len(calls[a]) /\ calls[a][i + 1] = "end_F"
            /\ (calls[a] # <<>> /\ Last(calls[a]) = "end_F")
                  => a \notin scheduled_actions
            /\ \A i, j \in 1..Len(calls[a]) :
                  (i < j /\ calls[a][i] = "is_finished_T"
                         /\ calls[a][j] \in IsFinishedCalls) =>
                      \E k \in (i + 1)..(j - 1) : calls[a][k] = "initialize")
    /\ [][ticks' = ticks + 1 =>
            \A a \in Actions : kind[a] = "WaitUntilAction" =>
                evals'[a] = evals[a] + (IF a \in scheduled_actions THEN 1 ELSE 0)]_vars
    /\ [][ticks' = ticks => evals' = evals]_vars
    /\ [][(\A a \in Actions : kind[a] = "WaitUntilAction") => roller' = roller]_vars

\* C17 witness: a WaitUntilAction whose condition was false in one tick and
\* true in the next was retired, and a later tick has run without it.
C17_Witness ==
    \E a \in Actions :
        /\ kind[a] = "WaitUntilAction"
        /\ calls[a] = <<"initialize", "execute", "is_finished_F",
                        "execute", "is_finished_T", "end_F">>
        /\ evals[a] = 2
        /\ a \notin scheduled_actions
        /\ ticks = 3
        /\ a \notin Range(actions_to_remove)

\* C18: schedule_action(a) only adds a to the active set and only calls
\* a.initialize(); and a tick executes every active action, commands the
\* roller once per active ActivateRoller, and takes an action out of the set
\* only after its own is_finished() returned true.
C18_NoArbitration ==
    /\ [][(ticks' = ticks /\ calls' # calls) =>
            \E a \in Actions :
                /\ scheduled_actions' = scheduled_actions \cup {a}
                /\ calls' = [calls EXCEPT ![a] = Append(@, "initialize")]]_vars
    /\ [][ticks' = ticks + 1 =>
            /\ \A a \in scheduled_actions :
                  /\ Count(calls'[a], "execute") = Count(calls[a], "execute") + 1
                  /\ a \notin scheduled_actions' =>
                        calls'[a] = calls[a] \o <<"execute", "is_finished_T", "end_F">>
            /\ roller'.sets = roller.sets
                 + Cardinality({a \in scheduled_actions : kind[a] = "ActivateRoller"})]_vars

\* C18 witness: two ActivateRoller actions on the one roller have both been
\* active through two ticks and the roller was commanded four times.
C18_Witness ==
    /\ \A a \in Actions : kind[a] = "ActivateRoller"
    /\ scheduled_actions = Actions
    /\ ticks = 2
    /\ roller = [value |-> "ROLLER_SPEED", sets |-> 4]

\* C19: the calls each action received in a tick and the active set after
\* it are what every iteration order of the active set produces, given what
\* each action's is_finished() returned.
C19_OrderIndependent ==
    [][ticks' = ticks + 1 =>
          LET fin == [a \in scheduled_actions |-> Last(calls'[a]) = "end_F"]
          IN \A order \in Perms(scheduled_actions) :
                LET st == RunLoop(order, 1, fin,
                                  [CurrentSt EXCEPT !.actions_to_remove = <<>>])
                IN /\ st.calls = calls'
                   /\ RemoveAll(scheduled_actions, st.actions_to_remove, 1)
                        = scheduled_actions']_vars

\* C19 witness: a tick has run over two active actions, of which a2 finished
\* and a1 did not.
C19_Witness ==
    /\ ticks = 1
    /\ scheduled_actions = {"a1"}
    /\ actions_to_remove = <<"a2">>
    /\ calls["a1"] = <<"initialize", "execute", "is_finished_F">>

\* C14: while a run() pass is in progress the active set is not mutated: it
\* does not change during the first loop, also when an action's execute()
\* calls schedule_action, and every action active at the start of the tick
\* is a member until the removal loop runs.
C14_NoMutationDuringPass ==
    /\ [](loop.pc # "idle" => loop.start \subseteq scheduled_actions)
    /\ [][loop.pc = "loop" => scheduled_actions' = scheduled_actions]_vars

\* C16: an action whose is_finished() has returned true in a run() is
\* eventually out of the active set, having been ended, whatever other
\* actions are active.
C16_FinishedIsRetired ==
    \A a \in Actions :
        (loop.pc # "idle" /\ a \in Range(actions_to_remove))
            ~> (/\ a \notin scheduled_actions
                /\ calls[a] # <<>>
                /\ Last(calls[a]) = "end_F")

\* C16 witness: a run() has returned in which one action finished and was
\* removed while another, which has never finished, stays active.
C16_Witness ==
    /\ loop.pc = "idle"
    /\ \E a, b \in Actions :
          /\ a \in Range(actions_to_remove)
          /\ a \notin scheduled_actions
          /\ Last(calls[a]) = "end_F"
          /\ b \in scheduled_actions
          /\ Count(calls[b], "execute") > 0
          /\ Count(calls[b], "is_finished_T") = 0

====
